---- MODULE Spec2Model ----
(***************************************************************************)
(* Model of export_db.py: enumerate the keys of a key-value store, read    *)
(* every value into a dict, dump the dict as indented JSON into            *)
(* database_backup.json, print a completion notice.                        *)
(*                                                                         *)
(* The store and the filesystem are collaborators: their calls return or   *)
(* fail, and another client may change the store at any moment.  A JSON    *)
(* text is a sequence of tokens; json.dump writes it chunk by chunk, a     *)
(* chunk being the tokens of one fp.write call.                            *)
(***************************************************************************)
EXTENDS Naturals, Sequences, FiniteSets

\* ---------------------------------------------------------------- bounds
MaxRuns == 2        \* runs of the script in sequence
MaxMuts == 1        \* changes another client makes to the store

\* ------------------------------------------------------- values and store
Keys == {"name", "tags"}

Absent == <<"absent">>                 \* the key is not in the store
VNum == <<"num", "42">>                \* 42
VArr == <<"arr", "a", "b">>            \* ["a", "b"]
VBad == <<"bad">>                      \* a value json has no encoding for
Values == {VNum, VArr, VBad}
Updates == {VNum, Absent}              \* what another client does: set 42, delete

Numerals == {"42"}
Strings == Keys \cup {"a", "b", "42"}

NoFile == [exists |-> FALSE, content |-> <<>>]
OldFile == [exists |-> TRUE, content |-> <<"old">>]

VARIABLES
    store,      \* db: key -> value or Absent
    file,       \* database_backup.json: [exists, content (tokens)]
    stdout,     \* lines the process has printed
    pc,         \* "keys", "loop", "dump", "print", "done", "failed"
    K,          \* the keys db.keys() returned, in iteration order
    it,         \* the keys the for loop has still to visit
    data,       \* the dict, as its items in insertion order
    w,          \* chunks json.dump has written
    fopen,      \* the file handle f is open
    err,        \* where the run failed: "none", "keys", "read", "open", "encode", "write"
    reads,      \* history: the db[key] calls of this run, [k, v] (v = Absent: it raised)
    nEnum,      \* history: db.keys() calls of this run
    snap,       \* history: the store when db.keys() returned
    dirty,      \* history: keys another client changed between db.keys() and their read
    file0,      \* history: the file when the run started
    prev,       \* history: how the previous run ended
    muts0,      \* history: muts when the run started
    run,        \* runs started
    muts        \* changes made by other clients

vars == <<store, file, stdout, pc, K, it, data, w, fopen, err, reads, nEnum,
          snap, dirty, file0, prev, muts0, run, muts>>

\* ------------------------------------------------------------------ dict
\* data = {key: value}: the dict is rebuilt instead of extended.
DictReset(d, k, v) == <<[k |-> k, v |-> v]>>

\* d[k] = v on a Python dict: replace in place, or insert at the end.
DictSet(d, k, v) ==
    IF \E j \in 1..Len(d) : d[j].k = k
    THEN [j \in 1..Len(d) |-> IF d[j].k = k THEN [k |-> k, v |-> v] ELSE d[j]]
    ELSE Append(d, [k |-> k, v |-> v])

DictKeys(d) == {d[j].k : j \in 1..Len(d)}

\* d[k] for k in d: the value of the last item with that key.
DictGet(d, k) ==
    LET js == {j \in 1..Len(d) : d[j].k = k}
    IN  d[CHOOSE j \in js : \A j2 \in js : j2 <= j].v

\* data[key] = str(db[key]): numbers become strings.
StoredStr(v) == IF v[1] = "num" THEN <<"str", v[2]>> ELSE v

\* The right-hand side of data[key] = db[key]: the value read, as it is.
Stored(v) == v

\* The iteration orders of a key set.
Orderings(S) ==
    {s \in [1..Cardinality(S) -> S] : \A a, b \in 1..Cardinality(S) : s[a] = s[b] => a = b}

\* Only the first page of the key listing is taken.
StoreKeysFirstPage(s) ==
    LET present == {k \in Keys : s[k] # Absent}
    IN  IF present = {} THEN {} ELSE {CHOOSE k \in present : TRUE}

\* db.keys(): the keys present in the store.
StoreKeys(s) == {k \in Keys : s[k] # Absent}

\* The class of failure the run ends with, by the step that raised.
ErrClass(e) ==
    IF e \in {"keys", "read"} THEN "StoreUnavailable"
    ELSE IF e = "encode" THEN "SerializationError"
    ELSE IF e \in {"open", "write"} THEN "FilesystemError"
    ELSE "none"

\* ------------------------------------------------------------ json.dump
NL0 == "\n"
NL1 == "\n    "
NL2 == "\n        "
Quote(s) == "\"" \o s \o "\""

Representable(v) == v[1] \in {"num", "str", "arr"}

\* The chunks a representable value encodes to (indent level 1).
ValueChunks(v) ==
    IF v[1] = "num" THEN << <<v[2]>> >>
    ELSE IF v[1] = "str" THEN << <<Quote(v[2])>> >>
    ELSE IF Len(v) = 1 THEN << <<"[", "]">> >>
    ELSE [j \in 1..(Len(v) - 1) |->
            IF j = 1 THEN <<"[", NL2, Quote(v[2])>> ELSE <<",", NL2, Quote(v[j + 1])>>]
         \o << <<NL1>>, <<"]">> >>

\* The chunks of the items of d from item j on; stops at the first value
\* that has no encoding (the encoder raises there).
RECURSIVE ItemChunks(_, _)
ItemChunks(d, j) ==
    IF j > Len(d) THEN << <<NL0>>, <<"}">> >>
    ELSE LET sep == IF j = 1 THEN <<>> ELSE << <<",", NL1>> >>
             head == sep \o << <<Quote(d[j].k)>>, <<": ">> >>
         IN  IF Representable(d[j].v)
             THEN head \o ValueChunks(d[j].v) \o ItemChunks(d, j + 1)
             ELSE head

\* json.dump(d or None, f, indent=4): an empty dict is written as null.
DictChunksOrNull(d) ==
    IF Len(d) = 0 THEN << <<"null">> >>
    ELSE << <<"{">>, <<NL1>> >> \o ItemChunks(d, 1)

\* The chunks json.dump(d, f, indent=4) writes before it returns or raises.
DictChunks(d) ==
    IF Len(d) = 0 THEN << <<"{", "}">> >>
    ELSE << <<"{">>, <<NL1>> >> \o ItemChunks(d, 1)

\* json.dump raises TypeError on d.
Raises(d) == \E j \in 1..Len(d) : ~Representable(d[j].v)

RECURSIVE Flatten(_)
Flatten(cs) == IF cs = <<>> THEN <<>> ELSE Head(cs) \o Flatten(Tail(cs))

\* The whole text of the document for d (up to the point where encoding raises).
DictText(d) == Flatten(DictChunks(d))

\* open(path, 'a'): the prior content stays.
KeepContent(c) == c

\* open(path, 'w') on a file with content c.
Truncate(c) == <<>>

IsPrefix(s, t) == Len(s) <= Len(t) /\ s = SubSeq(t, 1, Len(s))

\* ------------------------------------------------------------ json.loads
\* Used to read the file back; whitespace tokens carry no meaning.
Whitespace == {NL0, NL1, NL2}
Strip(t) == SelectSeq(t, LAMBDA x : x \notin Whitespace)
IsStrTok(x) == \E s \in Strings : Quote(s) = x
Unquote(x) == CHOOSE s \in Strings : Quote(s) = x
Bad == [ok |-> FALSE, v |-> <<>>, next |-> 0]

RECURSIVE ParseItems(_, _, _)
ParseItems(t, p, acc) ==
    IF p + 1 > Len(t) \/ ~IsStrTok(t[p]) THEN Bad
    ELSE IF t[p + 1] = "]" THEN [ok |-> TRUE, v |-> Append(acc, Unquote(t[p])), next |-> p + 2]
    ELSE IF t[p + 1] = "," THEN ParseItems(t, p + 2, Append(acc, Unquote(t[p])))
    ELSE Bad

ParseValue(t, p) ==
    IF p > Len(t) THEN Bad
    ELSE IF t[p] \in Numerals THEN [ok |-> TRUE, v |-> <<"num", t[p]>>, next |-> p + 1]
    ELSE IF IsStrTok(t[p]) THEN [ok |-> TRUE, v |-> <<"str", Unquote(t[p])>>, next |-> p + 1]
    ELSE IF t[p] = "["
         THEN IF p + 1 <= Len(t) /\ t[p + 1] = "]"
              THEN [ok |-> TRUE, v |-> <<"arr">>, next |-> p + 2]
              ELSE ParseItems(t, p + 1, <<"arr">>)
    ELSE Bad

\* The members of an object from token p on: [ok, items, next].
RECURSIVE ParseMembers(_, _, _)
ParseMembers(t, p, acc) ==
    IF p + 2 > Len(t) \/ ~IsStrTok(t[p]) \/ t[p + 1] # ": "
    THEN [ok |-> FALSE, items |-> <<>>, next |-> 0]
    ELSE LET val == ParseValue(t, p + 2)
             got == Append(acc, [k |-> Unquote(t[p]), v |-> val.v])
         IN  IF ~val.ok \/ val.next > Len(t) THEN [ok |-> FALSE, items |-> <<>>, next |-> 0]
             ELSE IF t[val.next] = "}" THEN [ok |-> TRUE, items |-> got, next |-> val.next + 1]
             ELSE IF t[val.next] = "," THEN ParseMembers(t, val.next + 1, got)
             ELSE [ok |-> FALSE, items |-> <<>>, next |-> 0]

\* The text parsed as one JSON object: [ok, items (members in file order)].
Parse(text) ==
    LET t == Strip(text)
    IN  IF Len(t) < 2 \/ t[1] # "{" THEN [ok |-> FALSE, items |-> <<>>]
        ELSE IF t[2] = "}" THEN [ok |-> Len(t) = 2, items |-> <<>>]
        ELSE LET m == ParseMembers(t, 2, <<>>)
             IN  [ok |-> m.ok /\ m.next = Len(t) + 1, items |-> IF m.ok THEN m.items ELSE <<>>]

\* ----------------------------------------------------------------- Init
Init ==
    /\ store \in [Keys -> Values \cup {Absent}]
    /\ file \in {NoFile, OldFile}
    /\ stdout = 0
    /\ pc = "keys"
    /\ K = <<>>
    /\ it = <<>>
    /\ data = <<>>
    /\ w = 0
    /\ fopen = FALSE
    /\ err = "none"
    /\ reads = <<>>
    /\ nEnum = 0
    /\ snap = store
    /\ dirty = {}
    /\ file0 = file
    /\ prev = [ok |-> FALSE, content |-> <<>>, muts |-> 0]
    /\ muts0 = 0
    /\ run = 1
    /\ muts = 0

\* -------------------------------------------------------------- actions
\* line 6: db.keys() returns the keys, in some order.
KeysOk ==
    /\ pc = "keys"
    /\ \E ord \in Orderings(StoreKeys(store)) :
          /\ K' = ord
          /\ it' = ord
    /\ nEnum' = nEnum + 1
    /\ snap' = store
    /\ dirty' = {}
    /\ pc' = "loop"
    /\ UNCHANGED <<store, file, stdout, data, w, fopen, err, reads, file0,
                   prev, muts0, run, muts>>

\* The file is opened before the keys are listed, and db.keys() raises.
KeysFailFileOpened ==
    /\ pc = "keys"
    /\ nEnum' = nEnum + 1
    /\ file' = [exists |-> TRUE, content |-> <<>>]
    /\ pc' = "failed"
    /\ err' = "keys"
    /\ UNCHANGED <<store, stdout, K, it, data, w, fopen, reads, snap, dirty,
                   file0, prev, muts0, run, muts>>

\* line 6: db.keys() raises; nothing catches it.
KeysFail ==
    /\ pc = "keys"
    /\ nEnum' = nEnum + 1
    /\ pc' = "failed"
    /\ err' = "keys"
    /\ UNCHANGED <<store, file, stdout, K, it, data, w, fopen, reads, snap,
                   dirty, file0, prev, muts0, run, muts>>

\* line 7: data[key] = db[key] for the next key of the loop.
ReadOk ==
    /\ pc = "loop"
    /\ it # <<>>
    /\ store[Head(it)] # Absent
    /\ data' = DictSet(data, Head(it), Stored(store[Head(it)]))
    /\ reads' = Append(reads, [k |-> Head(it), v |-> store[Head(it)]])
    /\ it' = Tail(it)
    /\ UNCHANGED <<store, file, stdout, pc, K, w, fopen, err, nEnum, snap,
                   dirty, file0, prev, muts0, run, muts>>

\* db[key] raises and the loop goes on with the next key (except: continue).
ReadFailSkipped ==
    /\ pc = "loop"
    /\ it # <<>>
    /\ reads' = Append(reads, [k |-> Head(it), v |-> Absent])
    /\ it' = Tail(it)
    /\ UNCHANGED <<store, file, stdout, pc, K, data, w, fopen, err, nEnum,
                   snap, dirty, file0, prev, muts0, run, muts>>

\* db[key] raises and the read is tried again.
ReadFailRetried ==
    /\ pc = "loop"
    /\ it # <<>>
    /\ reads' = Append(reads, [k |-> Head(it), v |-> Absent])
    /\ UNCHANGED <<store, file, stdout, pc, K, it, data, w, fopen, err, nEnum,
                   snap, dirty, file0, prev, muts0, run, muts>>

\* line 7: db[key] raises (the key is gone: KeyError; or the store cannot be
\* reached); nothing catches it.
ReadFail ==
    /\ pc = "loop"
    /\ it # <<>>
    /\ reads' = Append(reads, [k |-> Head(it), v |-> Absent])
    /\ pc' = "failed"
    /\ err' = "read"
    /\ UNCHANGED <<store, file, stdout, K, it, data, w, fopen, nEnum, snap,
                   dirty, file0, prev, muts0, run, muts>>

\* line 9: the loop is over; open(..., 'w') creates or truncates the file.
OpenOk ==
    /\ pc = "loop"
    /\ it = <<>>
    /\ file' = [exists |-> TRUE, content |-> Truncate(file.content)]
    /\ fopen' = TRUE
    /\ w' = 0
    /\ pc' = "dump"
    /\ UNCHANGED <<store, stdout, K, it, data, err, reads, nEnum, snap, dirty,
                   file0, prev, muts0, run, muts>>

\* open raises, the error is swallowed and the script goes on to its notice.
OpenFailIgnored ==
    /\ pc = "loop"
    /\ it = <<>>
    /\ pc' = "print"
    /\ UNCHANGED <<store, file, stdout, K, it, data, w, fopen, err, reads,
                   nEnum, snap, dirty, file0, prev, muts0, run, muts>>

\* line 9: open raises (no permission, invalid path): the file is not touched.
OpenFail ==
    /\ pc = "loop"
    /\ it = <<>>
    /\ pc' = "failed"
    /\ err' = "open"
    /\ UNCHANGED <<store, file, stdout, K, it, data, w, fopen, reads, nEnum,
                   snap, dirty, file0, prev, muts0, run, muts>>

\* line 10: json.dump writes its next chunk to f.
WriteChunk ==
    /\ pc = "dump"
    /\ w < Len(DictChunks(data))
    /\ file' = [file EXCEPT !.content = @ \o DictChunks(data)[w + 1]]
    /\ w' = w + 1
    /\ UNCHANGED <<store, stdout, pc, K, it, data, fopen, err, reads, nEnum,
                   snap, dirty, file0, prev, muts0, run, muts>>

\* line 10: the write of the next chunk raises (disk full); the with block
\* closes f, and the file keeps the chunks written before.
WriteFail ==
    /\ pc = "dump"
    /\ w < Len(DictChunks(data))
    /\ fopen' = FALSE
    /\ pc' = "failed"
    /\ err' = "write"
    /\ UNCHANGED <<store, file, stdout, K, it, data, w, reads, nEnum, snap,
                   dirty, file0, prev, muts0, run, muts>>

\* The TypeError of the encoder is swallowed (except TypeError: pass).
DumpRaiseSwallowed ==
    /\ pc = "dump"
    /\ w = Len(DictChunks(data))
    /\ Raises(data)
    /\ fopen' = FALSE
    /\ pc' = "print"
    /\ UNCHANGED <<store, file, stdout, K, it, data, w, err, reads, nEnum,
                   snap, dirty, file0, prev, muts0, run, muts>>

\* line 10: the encoder meets a value it cannot encode and raises TypeError;
\* the with block closes f, keeping what was written.
DumpRaise ==
    /\ pc = "dump"
    /\ w = Len(DictChunks(data))
    /\ Raises(data)
    /\ fopen' = FALSE
    /\ pc' = "failed"
    /\ err' = "encode"
    /\ UNCHANGED <<store, file, stdout, K, it, data, w, reads, nEnum, snap,
                   dirty, file0, prev, muts0, run, muts>>

\* lines 9-10: json.dump returns and the with block closes f.
Close ==
    /\ pc = "dump"
    /\ w = Len(DictChunks(data))
    /\ ~Raises(data)
    /\ fopen' = FALSE
    /\ pc' = "print"
    /\ UNCHANGED <<store, file, stdout, K, it, data, w, err, reads, nEnum,
                   snap, dirty, file0, prev, muts0, run, muts>>

\* line 12: print the notice; the script ends.
Notice ==
    /\ pc = "print"
    /\ stdout' = stdout + 1
    /\ pc' = "done"
    /\ UNCHANGED <<store, file, K, it, data, w, fopen, err, reads, nEnum, snap,
                   dirty, file0, prev, muts0, run, muts>>

Terminated == pc \in {"done", "failed"}

\* The script is run again: a new process, with its own output (line 5,
\* data = {}).
NewRun ==
    /\ Terminated
    /\ run < MaxRuns
    /\ run' = run + 1
    /\ prev' = IF pc = "done"
               THEN [ok |-> TRUE, content |-> file.content, muts |-> muts0]
               ELSE [ok |-> FALSE, content |-> <<>>, muts |-> 0]
    /\ pc' = "keys"
    /\ K' = <<>>
    /\ it' = <<>>
    /\ data' = <<>>
    /\ w' = 0
    /\ err' = "none"
    /\ reads' = <<>>
    /\ nEnum' = 0
    /\ snap' = store
    /\ dirty' = {}
    /\ file0' = file
    /\ stdout' = 0
    /\ muts0' = muts
    /\ UNCHANGED <<store, file, fopen, muts>>

ItSet == {it[j] : j \in 1..Len(it)}

\* Another client of the store sets or deletes a key.  The script uses the
\* store between db.keys() and the end of its loop only, so a change made at
\* another moment is taken at the next such moment (or is in Init).
OtherClient ==
    /\ muts < MaxMuts
    /\ pc = "loop"
    /\ \E k \in Keys, v \in Updates :
          /\ store[k] # v
          /\ store' = [store EXCEPT ![k] = v]
          /\ dirty' = IF pc = "loop" /\ k \in ItSet THEN dirty \cup {k} ELSE dirty
    /\ muts' = muts + 1
    /\ UNCHANGED <<file, stdout, pc, K, it, data, w, fopen, err, reads, nEnum,
                   snap, file0, prev, muts0, run>>

Script ==
    \/ KeysOk
    \/ KeysFail
    \/ ReadOk
    \/ ReadFail
    \/ OpenOk
    \/ OpenFail
    \/ WriteChunk
    \/ WriteFail
    \/ DumpRaise
    \/ Close
    \/ Notice

Next ==
    \/ Script
    \/ NewRun
    \/ OtherClient

Spec == Init /\ [][Next]_vars

\* One run of the script.  Every call of the store and of the filesystem
\* returns or raises, so the script always takes its next step.
NextLive ==
    \/ Script
    \/ OtherClient

LiveSpec == Init /\ [][NextLive]_vars /\ WF_vars(Script)

\* ------------------------------------------------------------- properties
Range(q) == {q[j] : j \in 1..Len(q)}

\* The file read back as JSON.
FileJson == Parse(file.content)

\* The file holds the whole document of the dict, and nothing else.
FileComplete == file.exists /\ ~Raises(data) /\ file.content = DictText(data)

SameMapping(a, b) ==
    /\ DictKeys(a) = DictKeys(b)
    /\ \A k \in DictKeys(a) : DictGet(a, k) = DictGet(b, k)

\* C1 (completeness): after a successful run the keys of the dict and the
\* top-level keys of the written file are exactly the keys db.keys()
\* returned: none missing, none extra, none twice.
C1_Completeness ==
    pc = "done" =>
        /\ DictKeys(data) = Range(K)
        /\ Len(data) = Len(K)
        /\ FileJson.ok
        /\ DictKeys(FileJson.items) = Range(K)
        /\ Len(FileJson.items) = Cardinality(Range(K))

C1_Witness == pc = "done" /\ Len(K) = 2 /\ Len(FileJson.items) = 2

\* C2 (fidelity): after a successful run the value the file holds under each
\* enumerated key is the value db[key] returned in the loop.
C2_Fidelity ==
    pc = "done" =>
        /\ FileJson.ok
        /\ {reads[j].k : j \in 1..Len(reads)} = Range(K)
        /\ \A j \in 1..Len(reads) :
              /\ reads[j].k \in DictKeys(FileJson.items)
              /\ DictGet(FileJson.items, reads[j].k) = reads[j].v

C2_Witness ==
    /\ pc = "done"
    /\ \E i, j \in 1..Len(reads) : reads[i].v = VNum /\ reads[j].v = VArr

\* C3: when db.keys() fails the run ends in failure (StoreUnavailable), the
\* file is as it was before the run (absent, or its prior contents), no value
\* was read and no notice is printed.
C3_EnumerationFailure ==
    err = "keys" =>
        /\ pc = "failed"
        /\ ErrClass(err) = "StoreUnavailable"
        /\ file = file0
        /\ ~fopen
        /\ reads = <<>>
        /\ stdout = 0

C3_Witness == err = "keys" /\ pc = "failed" /\ file0.exists /\ file = file0

\* C4 as claimed, at the end of a run in which no write to the file failed
\* (so also of a run that fails with SerializationError): the file is as it
\* was before the run, or it holds the complete document; never an empty or
\* partial one.
C4_NoPartialFile == (Terminated /\ err # "write") => (file = file0 \/ FileComplete)

\* C4 as amended: the file is as it was before the run until all values are
\* read and the file is opened; from then on it holds a prefix (possibly
\* empty) of the document: the complete document after a successful run, an
\* incomplete one, which is no valid JSON, after a run that fails while
\* encoding or writing.
C4_PrefixOfDocument ==
    /\ (pc \in {"keys", "loop"} \/ err \in {"keys", "read", "open"}) => file = file0
    /\ (pc \in {"dump", "print", "done"} \/ err \in {"encode", "write"}) =>
          /\ file.exists
          /\ IsPrefix(file.content, DictText(data))
    /\ pc \in {"print", "done"} => FileComplete /\ FileJson.ok
    /\ err \in {"encode", "write"} => ~FileJson.ok

C4_Witness ==
    /\ err = "encode"
    /\ file0 = OldFile
    /\ Len(file.content) > 0
    /\ file # file0
    /\ ~FileJson.ok

\* C5 as claimed: after a successful run the file holds the store's pairs as
\* they were when db.keys() returned, whatever other clients did meanwhile.
C5_SnapshotAtEnumeration ==
    pc = "done" =>
        /\ DictKeys(FileJson.items) = {k \in Keys : snap[k] # Absent}
        /\ \A k \in DictKeys(FileJson.items) : DictGet(FileJson.items, k) = snap[k]

\* C5 as amended: after a successful run the keys of the file are the keys
\* the store had when db.keys() returned, and each value is the one the store
\* held when that key was read: the value at enumeration time for every key
\* no other client changed between the enumeration and its read.
C5_ValuesAtReadTime ==
    pc = "done" =>
        /\ DictKeys(FileJson.items) = {k \in Keys : snap[k] # Absent}
        /\ \A k \in DictKeys(FileJson.items) :
              /\ \E j \in 1..Len(reads) :
                    reads[j].k = k /\ reads[j].v = DictGet(FileJson.items, k)
              /\ k \notin dirty => DictGet(FileJson.items, k) = snap[k]

C5_Witness ==
    /\ pc = "done"
    /\ \E k \in dirty :
          /\ k \in DictKeys(FileJson.items)
          /\ DictGet(FileJson.items, k) # snap[k]

\* C6 (empty store): when db.keys() returns no key, no value is read and the
\* run cannot fail on the store or on encoding; unless the filesystem fails
\* (the contract requires a writable destination) it ends successfully with
\* the file holding exactly {} and the notice printed.
C6_EmptyStore ==
    (pc \notin {"keys"} /\ err # "keys" /\ K = <<>>) =>
        /\ reads = <<>>
        /\ err \in {"none", "open", "write"}
        /\ (Terminated /\ ErrClass(err) # "FilesystemError") =>
              /\ pc = "done"
              /\ file = [exists |-> TRUE, content |-> <<"{", "}">>]
              /\ FileJson.ok /\ FileJson.items = <<>>
              /\ stdout = 1

C6_Witness == pc = "done" /\ K = <<>> /\ file0 = OldFile /\ file.content = <<"{", "}">>

\* C7 (notice): at most one notice per run; it is printed only after every
\* value is read and the file is completely written and closed; a failed run
\* prints none; a finished run has either printed it or failed, never both.
C7_NoticeOrdering ==
    /\ stdout <= 1
    /\ stdout = 1 =>
          /\ pc = "done"
          /\ it = <<>>
          /\ Len(reads) = Len(K)
          /\ ~fopen
          /\ FileComplete
    /\ pc = "failed" => stdout = 0 /\ ErrClass(err) # "none"
    /\ pc = "done" => stdout = 1 /\ err = "none"
    /\ err # "none" => pc = "failed"

C7_Witness == pc = "done" /\ stdout = 1 /\ Len(K) = 2 /\ run = 2

\* C8 as claimed: a second run against an unchanged store leaves the same
\* file content as the first.
C8_SameContent ==
    (pc = "done" /\ prev.ok /\ prev.muts = muts) => file.content = prev.content

\* C8 as amended: after a successful run the file holds the document of the
\* pairs read and nothing of its prior contents; a second run against an
\* unchanged store leaves the same JSON object as the first, its members
\* possibly in another order.
C8_SameJson ==
    pc = "done" =>
        /\ file.content = DictText(data)
        /\ (prev.ok /\ prev.muts = muts) =>
              /\ FileJson.ok /\ Parse(prev.content).ok
              /\ SameMapping(FileJson.items, Parse(prev.content).items)
              /\ Len(FileJson.items) = Len(Parse(prev.content).items)

C8_Witness ==
    /\ pc = "done" /\ prev.ok /\ prev.muts = muts
    /\ file.content # prev.content
    /\ file0.content = prev.content

\* C9 (read failure): when a db[key] raises, the run fails at that key: it is
\* the last read, nothing is retried, the file was never opened and is as it
\* was before the run, and no notice is printed.
C9_ReadFailure ==
    (\E j \in 1..Len(reads) : reads[j].v = Absent) =>
        /\ pc = "failed" /\ err = "read"
        /\ \A j \in 1..Len(reads) : reads[j].v = Absent <=> j = Len(reads)
        /\ Len(reads) <= Len(K)
        /\ \A j \in 1..Len(reads) : reads[j].k = K[j]
        /\ ~fopen /\ w = 0
        /\ file = file0
        /\ stdout = 0

C9_Witness ==
    /\ err = "read" /\ Len(K) = 2 /\ Len(reads) = 1
    /\ store[K[1]] = Absent
    /\ file0 = OldFile /\ file = OldFile

\* C10 (bounded single pass): a run makes one db.keys() call and at most one
\* read per enumerated key, in enumeration order, all of them before the file
\* is opened and exactly Len(K) of them on success; and every run terminates.
C10_SinglePass ==
    /\ nEnum <= 1
    /\ pc # "keys" => nEnum = 1
    /\ Len(reads) <= Len(K)
    /\ \A j \in 1..Len(reads) : reads[j].k = K[j]
    /\ (pc \in {"dump", "print", "done"} \/ fopen \/ file # file0) => Len(reads) = Len(K)
    /\ pc = "done" => Len(reads) = Len(K)

\* C10: the single pass holds throughout the run, and the run terminates
\* (with success or with a propagated failure).
C10_BoundedSinglePass == []C10_SinglePass /\ <>Terminated

C10_Witness == pc = "done" /\ nEnum = 1 /\ Len(reads) = 2 /\ Len(K) = 2

====
